---- MODULE Spec2Model ----
(***************************************************************************)
(* NFT ledger (nft-contract) and sale/settlement layer (market-contract).  *)
(*                                                                         *)
(* A contract call that panics (assert!, expect, panic_str) is reverted by *)
(* the runtime: none of its writes or promises survive.  Every handler is  *)
(* therefore an operator from (state, inputs) to an outcome record         *)
(* [err, <new state>, <effects>]; a panic returns the state it was given   *)
(* and no effects.  The actions apply the handlers and keep the outcome of *)
(* the most recent call in `last` / `nlast`.                               *)
(***************************************************************************)
EXTENDS Integers, Sequences, FiniteSets, Bags, TLC

VARIABLES
    sales,      \* market: registry key -> Sale
    purchases,  \* market: slot -> purchase in flight (remote request + callback)
    last,       \* market: the most recent call and its outcome
    issued,     \* market: key -> remote requests issued since the key was last listed
    tokens_by_id,      \* ledger: token id -> Token
    tokens_per_owner,  \* ledger: account -> the token ids it holds
    nlast,             \* ledger: the most recent call and its outcome
    handed             \* ledger: token id -> the approval ids handed out, in order

mvars == <<sales, purchases, last, issued>>
lvars == <<tokens_by_id, tokens_per_owner, nlast, handed>>
vars == <<sales, purchases, last, issued, tokens_by_id, tokens_per_owner, nlast, handed>>

(***************************************************************************)
(* Bounds and input sets                                                   *)
(***************************************************************************)
MaxPrice == 2
MaxApprovals == 2

Accounts == {"alice", "bob"}
ContractIds == {"nft"}
TokenIds == {"t1", "t2"}
\* The listings the ledger's approvals create: each token's owner, and the
\* approval id the ledger gave the market for it.
ListedOwner == [t \in TokenIds |-> IF t = "t1" THEN "alice" ELSE "bob"]
ListedApproval == [t \in TokenIds |-> IF t = "t1" THEN 0 ELSE 1]
Prices == 1..MaxPrice
Deposits == 0..MaxPrice
YoctoDeposits == {1, 2}
Slots == {1, 2}

(***************************************************************************)
(* market-contract: Sale registry                                          *)
(***************************************************************************)
DELIMETER == "."

contract_and_token_id(contract_id, token_id) ==
    contract_id \o DELIMETER \o token_id

Keys == {contract_and_token_id(c, t) : c \in ContractIds, t \in TokenIds}

Sale(owner_id, approval_id, nft_contract_id, token_id, price) ==
    [owner_id |-> owner_id, approval_id |-> approval_id,
     nft_contract_id |-> nft_contract_id, token_id |-> token_id,
     sale_conditions |-> price]

MapPut(m, k, v) == [x \in DOMAIN m \cup {k} |-> IF x = k THEN v ELSE m[x]]
MapDel(m, k) == [x \in DOMAIN m \ {k} |-> m[x]]
EmptyMap == [x \in {} |-> 0]

NoSale == Sale("", 0, "", "", 0)
NoRequest ==
    [contract |-> "", receiver_id |-> "", token_id |-> "", approval_id |-> 0,
     balance |-> 0, max_len_payout |-> 0]
NoCallback == [buyer_id |-> "", price |-> 0]
NoResult == [kind |-> "None", decodable |-> FALSE, payout |-> EmptyMap]
IdlePurchase ==
    [status |-> "Idle", request |-> NoRequest, callback |-> NoCallback,
     result |-> NoResult]

\* A panicking call: the state it was given, no promise.
MarketPanic(msg) == [err |-> msg, sales |-> sales, promises |-> <<>>, removed |-> NoSale]

assert_one_yocto(deposit) == deposit = 1

internal_remove_sale(nft_contract_id, token_id) ==
    LET key == contract_and_token_id(nft_contract_id, token_id)
    IN IF key \notin DOMAIN sales
       THEN [err |-> "No sale", sale |-> NoSale, sales |-> sales]
       ELSE [err |-> "ok", sale |-> sales[key], sales |-> MapDel(sales, key)]

\* remove_sale without the owner check
remove_sale_any_caller(caller, deposit, nft_contract_id, token_id) ==
    IF ~assert_one_yocto(deposit)
    THEN MarketPanic("Requires attached deposit of exactly 1 yoctoNEAR")
    ELSE LET r == internal_remove_sale(nft_contract_id, token_id)
         IN IF r.err # "ok" THEN MarketPanic(r.err)
            ELSE [err |-> "ok", sales |-> r.sales, promises |-> <<>>, removed |-> r.sale]

remove_sale(caller, deposit, nft_contract_id, token_id) ==
    IF ~assert_one_yocto(deposit)
    THEN MarketPanic("Requires attached deposit of exactly 1 yoctoNEAR")
    ELSE LET r == internal_remove_sale(nft_contract_id, token_id)
         IN IF r.err # "ok" THEN MarketPanic(r.err)
            ELSE IF caller # r.sale.owner_id THEN MarketPanic("Must be sale owner")
            ELSE [err |-> "ok", sales |-> r.sales, promises |-> <<>>, removed |-> r.sale]

\* update_price without the owner assert
update_price_any_caller(caller, deposit, nft_contract_id, token_id, price) ==
    LET key == contract_and_token_id(nft_contract_id, token_id)
    IN IF ~assert_one_yocto(deposit)
       THEN MarketPanic("Requires attached deposit of exactly 1 yoctoNEAR")
       ELSE IF key \notin DOMAIN sales THEN MarketPanic("No sale")
       ELSE [err |-> "ok",
             sales |-> MapPut(sales, key, [sales[key] EXCEPT !.sale_conditions = price]),
             promises |-> <<>>, removed |-> NoSale]

update_price(caller, deposit, nft_contract_id, token_id, price) ==
    LET key == contract_and_token_id(nft_contract_id, token_id)
    IN IF ~assert_one_yocto(deposit)
       THEN MarketPanic("Requires attached deposit of exactly 1 yoctoNEAR")
       ELSE IF key \notin DOMAIN sales THEN MarketPanic("No sale")
       ELSE IF caller # sales[key].owner_id THEN MarketPanic("Must be sale owner")
       ELSE [err |-> "ok",
             sales |-> MapPut(sales, key, [sales[key] EXCEPT !.sale_conditions = price]),
             promises |-> <<>>, removed |-> NoSale]

(***************************************************************************)
(* market-contract: settlement                                             *)
(***************************************************************************)
\* max_len_payout handed to nft_transfer_payout, and the entry limit resolve_purchase enforces
RequestMaxLenPayout == 10
MaxPayoutLen == 10

\* process_purchase issuing the request without removing the Sale
process_purchase_keeps_sale(nft_contract_id, token_id, price, buyer_id) ==
    LET r == internal_remove_sale(nft_contract_id, token_id)
    IN IF r.err # "ok" THEN MarketPanic(r.err)
       ELSE [err |-> "ok", sales |-> sales,
             promises |-> <<[request |-> [contract |-> nft_contract_id,
                                          receiver_id |-> buyer_id,
                                          token_id |-> token_id,
                                          approval_id |-> r.sale.approval_id,
                                          balance |-> price,
                                          max_len_payout |-> RequestMaxLenPayout],
                             callback |-> [buyer_id |-> buyer_id, price |-> price]]>>,
             removed |-> r.sale]

process_purchase(nft_contract_id, token_id, price, buyer_id) ==
    LET r == internal_remove_sale(nft_contract_id, token_id)
    IN IF r.err # "ok" THEN MarketPanic(r.err)
       ELSE [err |-> "ok", sales |-> r.sales,
             promises |-> <<[request |-> [contract |-> nft_contract_id,
                                          receiver_id |-> buyer_id,
                                          token_id |-> token_id,
                                          approval_id |-> r.sale.approval_id,
                                          balance |-> price,
                                          max_len_payout |-> RequestMaxLenPayout],
                             callback |-> [buyer_id |-> buyer_id, price |-> price]]>>,
             removed |-> r.sale]

\* offer without the price check
offer_any_deposit(buyer_id, deposit, nft_contract_id, token_id) ==
    LET key == contract_and_token_id(nft_contract_id, token_id)
    IN IF ~(deposit > 0) THEN MarketPanic("Attached deposit must be greater than 0")
       ELSE IF key \notin DOMAIN sales THEN MarketPanic("No sale")
       ELSE IF sales[key].owner_id = buyer_id
            THEN MarketPanic("Cannot bid on your own sale.")
       ELSE process_purchase(nft_contract_id, token_id, deposit, buyer_id)

\* offer settling at the listed price
offer_settles_price(buyer_id, deposit, nft_contract_id, token_id) ==
    LET key == contract_and_token_id(nft_contract_id, token_id)
    IN IF ~(deposit > 0) THEN MarketPanic("Attached deposit must be greater than 0")
       ELSE IF key \notin DOMAIN sales THEN MarketPanic("No sale")
       ELSE IF sales[key].owner_id = buyer_id
            THEN MarketPanic("Cannot bid on your own sale.")
       ELSE IF ~(deposit >= sales[key].sale_conditions)
            THEN MarketPanic("Attached deposit must be greater than or equal to the current price")
       ELSE process_purchase(nft_contract_id, token_id, sales[key].sale_conditions, buyer_id)

offer(buyer_id, deposit, nft_contract_id, token_id) ==
    LET key == contract_and_token_id(nft_contract_id, token_id)
    IN IF ~(deposit > 0) THEN MarketPanic("Attached deposit must be greater than 0")
       ELSE IF key \notin DOMAIN sales THEN MarketPanic("No sale")
       ELSE IF sales[key].owner_id = buyer_id
            THEN MarketPanic("Cannot bid on your own sale.")
       ELSE IF ~(deposit >= sales[key].sale_conditions)
            THEN MarketPanic("Attached deposit must be greater than or equal to the current price")
       ELSE process_purchase(nft_contract_id, token_id, deposit, buyer_id)

\* The outcome of the remote nft_transfer_payout call as the callback sees it.
promise_result_as_success(result) ==
    IF result.kind = "Successful"
    THEN [some |-> TRUE, value |-> result]
    ELSE [some |-> FALSE, value |-> result]

\* serde_json::from_slice::<Payout>(&value).ok()
from_slice_Payout(value) ==
    IF value.decodable
    THEN [some |-> TRUE, payout |-> value.payout]
    ELSE [some |-> FALSE, payout |-> EmptyMap]

\* saturating_sub in place of checked_sub
RECURSIVE checked_sub_all_saturating(_, _, _)
checked_sub_all_saturating(remainder, payout, todo) ==
    IF todo = {} THEN remainder
    ELSE LET k == CHOOSE x \in todo : TRUE
         IN IF payout[k] > remainder
            THEN checked_sub_all_saturating(0, payout, todo \ {k})
            ELSE checked_sub_all_saturating(remainder - payout[k], payout, todo \ {k})

\* remainder = remainder.checked_sub(value.0)? over payout.values(); -1 is None.
RECURSIVE checked_sub_all(_, _, _)
checked_sub_all(remainder, payout, todo) ==
    IF todo = {} THEN remainder
    ELSE LET k == CHOOSE x \in todo : TRUE
         IN IF payout[k] > remainder THEN -1
            ELSE checked_sub_all(remainder - payout[k], payout, todo \ {k})

\* the closure accepting a payout only when nothing remains
payout_option_exact(price, result) ==
    LET success == promise_result_as_success(result)
        decoded == from_slice_Payout(success.value)
        n == Cardinality(DOMAIN decoded.payout)
        remainder == checked_sub_all(price, decoded.payout, DOMAIN decoded.payout)
    IN IF ~success.some THEN [some |-> FALSE, payout |-> EmptyMap]
       ELSE IF ~decoded.some THEN [some |-> FALSE, payout |-> EmptyMap]
       ELSE IF n > MaxPayoutLen \/ n = 0 THEN [some |-> FALSE, payout |-> EmptyMap]
       ELSE IF remainder = 0
            THEN [some |-> TRUE, payout |-> decoded.payout]
       ELSE [some |-> FALSE, payout |-> EmptyMap]

\* The closure of resolve_purchase: the payout to distribute, if any.
\* payout_option accepting any payout that does not exceed the price
payout_option_any_remainder(price, result) ==
    LET success == promise_result_as_success(result)
        decoded == from_slice_Payout(success.value)
        n == Cardinality(DOMAIN decoded.payout)
        remainder == checked_sub_all(price, decoded.payout, DOMAIN decoded.payout)
    IN IF ~success.some THEN [some |-> FALSE, payout |-> EmptyMap]
       ELSE IF ~decoded.some THEN [some |-> FALSE, payout |-> EmptyMap]
       ELSE IF n > MaxPayoutLen \/ n = 0 THEN [some |-> FALSE, payout |-> EmptyMap]
       ELSE IF remainder >= 0
            THEN [some |-> TRUE, payout |-> decoded.payout]
       ELSE [some |-> FALSE, payout |-> EmptyMap]

payout_option(price, result) ==
    LET success == promise_result_as_success(result)
        decoded == from_slice_Payout(success.value)
        n == Cardinality(DOMAIN decoded.payout)
        remainder == checked_sub_all(price, decoded.payout, DOMAIN decoded.payout)
    IN IF ~success.some THEN [some |-> FALSE, payout |-> EmptyMap]
       ELSE IF ~decoded.some THEN [some |-> FALSE, payout |-> EmptyMap]
       ELSE IF n > MaxPayoutLen \/ n = 0 THEN [some |-> FALSE, payout |-> EmptyMap]
       ELSE IF remainder = 0 \/ remainder = 1
            THEN [some |-> TRUE, payout |-> decoded.payout]
       ELSE [some |-> FALSE, payout |-> EmptyMap]

TransfersOf(payout) == SetToBag({<<r, payout[r]>> : r \in DOMAIN payout})

\* resolve_purchase unwrapping the promise result: no value, no refund
resolve_purchase_unwrap(buyer_id, price, result) ==
    LET option == payout_option(price, result)
    IN IF result.kind # "Successful"
       THEN [ret |-> 0, terminal |-> "none", transfers |-> EmptyBag]
       ELSE IF ~option.some
       THEN [ret |-> price, terminal |-> "Refund",
             transfers |-> SetToBag({<<buyer_id, price>>})]
       ELSE [ret |-> price, terminal |-> "Distribute",
             transfers |-> TransfersOf(option.payout)]

\* resolve_purchase returning what it paid out
resolve_purchase_returns_paid(buyer_id, price, result) ==
    LET option == payout_option(price, result)
        remainder == checked_sub_all(price, option.payout, DOMAIN option.payout)
    IN IF ~option.some
       THEN [ret |-> price, terminal |-> "Refund",
             transfers |-> SetToBag({<<buyer_id, price>>})]
       ELSE [ret |-> price - remainder, terminal |-> "Distribute",
             transfers |-> TransfersOf(option.payout)]

\* resolve_purchase reading buyer and price from one context shared by all
\* purchases (that of the earliest pending one) instead of its arguments
resolve_purchase_shared_context(buyer_id, price, result) ==
    LET pending == {s \in Slots : purchases[s].status = "Initiating"}
        first == CHOOSE s \in pending : \A t \in pending : s <= t
        shared == purchases[first].callback
        option == payout_option(shared.price, result)
    IN IF ~option.some
       THEN [ret |-> shared.price, terminal |-> "Refund",
             transfers |-> SetToBag({<<shared.buyer_id, shared.price>>})]
       ELSE [ret |-> shared.price, terminal |-> "Distribute",
             transfers |-> TransfersOf(option.payout)]

resolve_purchase(buyer_id, price, result) ==
    LET option == payout_option(price, result)
    IN IF ~option.some
       THEN [ret |-> price, terminal |-> "Refund",
             transfers |-> SetToBag({<<buyer_id, price>>})]
       ELSE [ret |-> price, terminal |-> "Distribute",
             transfers |-> TransfersOf(option.payout)]

(***************************************************************************)
(* market-contract: calls                                                  *)
(***************************************************************************)
NoCall ==
    [op |-> "none", caller |-> "", deposit |-> 0, nft_contract_id |-> "",
     token_id |-> "", price |-> 0, err |-> "ok", requests |-> <<>>,
     slot |-> 0, result |-> NoResult, terminal |-> "none",
     transfers |-> EmptyBag, ret |-> 0]

FreeSlots == {s \in Slots : purchases[s].status = "Idle"}
Lowest(S) == CHOOSE s \in S : \A x \in S : s <= x

\* Listing (nft_on_approve of the market): the owner's approval of the market
\* for a token creates, or replaces, the Sale under the token's key.
ListSale(owner_id, nft_contract_id, token_id, approval_id, price) ==
    LET key == contract_and_token_id(nft_contract_id, token_id)
    IN /\ sales' = MapPut(sales, key,
                          Sale(owner_id, approval_id, nft_contract_id, token_id, price))
       /\ issued' = [issued EXCEPT ![key] = 0]
       /\ last' = [NoCall EXCEPT !.op = "list", !.caller = owner_id,
                                 !.nft_contract_id = nft_contract_id,
                                 !.token_id = token_id, !.price = price]
       /\ UNCHANGED purchases
       /\ UNCHANGED lvars

RemoveSale(caller, deposit, nft_contract_id, token_id) ==
    LET o == remove_sale(caller, deposit, nft_contract_id, token_id)
    IN /\ sales' = o.sales
       /\ last' = [NoCall EXCEPT !.op = "remove_sale", !.caller = caller,
                                 !.deposit = deposit,
                                 !.nft_contract_id = nft_contract_id,
                                 !.token_id = token_id, !.err = o.err]
       /\ UNCHANGED <<purchases, issued>>
       /\ UNCHANGED lvars

UpdatePrice(caller, deposit, nft_contract_id, token_id, price) ==
    LET o == update_price(caller, deposit, nft_contract_id, token_id, price)
    IN /\ sales' = o.sales
       /\ last' = [NoCall EXCEPT !.op = "update_price", !.caller = caller,
                                 !.deposit = deposit,
                                 !.nft_contract_id = nft_contract_id,
                                 !.token_id = token_id, !.price = price,
                                 !.err = o.err]
       /\ UNCHANGED <<purchases, issued>>
       /\ UNCHANGED lvars

\* offer, with the promise that process_purchase creates put in flight.
Offer(buyer_id, deposit, nft_contract_id, token_id) ==
    LET o == offer(buyer_id, deposit, nft_contract_id, token_id)
        key == contract_and_token_id(nft_contract_id, token_id)
        n == Len(o.promises)
    IN /\ n > 0 => FreeSlots # {}
       /\ sales' = o.sales
       /\ purchases' =
            IF n = 0 THEN purchases
            ELSE [purchases EXCEPT ![Lowest(FreeSlots)] =
                     [status |-> "Initiating", request |-> o.promises[1].request,
                      callback |-> o.promises[1].callback, result |-> NoResult]]
       /\ issued' = IF n = 0 THEN issued ELSE [issued EXCEPT ![key] = @ + n]
       /\ last' = [NoCall EXCEPT !.op = "offer", !.caller = buyer_id,
                                 !.deposit = deposit,
                                 !.nft_contract_id = nft_contract_id,
                                 !.token_id = token_id, !.err = o.err,
                                 !.price = o.removed.sale_conditions,
                                 !.requests = [i \in 1..n |-> o.promises[i].request],
                                 !.slot = IF n = 0 THEN 0 ELSE Lowest(FreeSlots)]
       /\ UNCHANGED lvars

\* The callback of the purchase in slot s runs with the remote call's outcome.
ResolvePurchase(s, result) ==
    /\ purchases[s].status = "Initiating"
    /\ LET cb == purchases[s].callback
           o == resolve_purchase(cb.buyer_id, cb.price, result)
       IN /\ purchases' = [purchases EXCEPT ![s] = IdlePurchase]
          /\ last' = [NoCall EXCEPT !.op = "resolve_purchase",
                                    !.caller = cb.buyer_id, !.price = cb.price,
                                    !.slot = s, !.result = result,
                                    !.terminal = o.terminal,
                                    !.transfers = o.transfers, !.ret = o.ret]
    /\ UNCHANGED <<sales, issued>>
    /\ UNCHANGED lvars

(***************************************************************************)
(* nft-contract: tokens, approvals, transfer with payout                   *)
(***************************************************************************)
LedgerAccounts == {"alice", "bob", "market"}
LedgerTokens == {"t1", "t2"}
\* The token the modelled calls are made on; "t2" is held by bob throughout.
CallTokens == {"t1"}
ApproveDeposits == {0, 1, 20}
ApprovalArgs == {0, 1}
MaxLens == {1, 2}
Balances == {1000}
\* env::storage_byte_cost(), in units of the deposits above
StorageByteCost == 1

Token(owner_id, approved_account_ids, next_approval_id, royalty) ==
    [owner_id |-> owner_id, approved_account_ids |-> approved_account_ids,
     next_approval_id |-> next_approval_id, royalty |-> royalty]

NoToken == Token("", EmptyMap, 0, EmptyMap)
None == [some |-> FALSE, id |-> 0]
Some(id) == [some |-> TRUE, id |-> id]

LedgerPanic(msg) ==
    [err |-> msg, tokens_by_id |-> tokens_by_id, tokens_per_owner |-> tokens_per_owner,
     approval_id |-> 0, payout |-> EmptyMap, previous_token |-> NoToken,
     refunds |-> EmptyBag]

assert_at_least_one_yocto(deposit) == deposit >= 1

bytes_for_approved_account_id(account_id) == Len(account_id) + 4 + 8

\* refund_deposit: the panic condition, and the refund sent to the caller
refund_deposit_ok(storage_used, deposit) == StorageByteCost * storage_used <= deposit

refund_deposit(caller, storage_used, deposit) ==
    LET refund == deposit - StorageByteCost * storage_used
    IN IF refund > 1 THEN SetToBag({<<caller, refund>>}) ELSE EmptyBag

RECURSIVE SumBytes(_)
SumBytes(accounts) ==
    IF accounts = {} THEN 0
    ELSE LET a == CHOOSE x \in accounts : TRUE
         IN bytes_for_approved_account_id(a) + SumBytes(accounts \ {a})

refund_approved_account_ids_iter(account_id, approved) ==
    SetToBag({<<account_id, SumBytes(approved) * StorageByteCost>>})

refund_approved_account_ids(account_id, approved_account_ids) ==
    refund_approved_account_ids_iter(account_id, DOMAIN approved_account_ids)

\* nft_approve handing out the counter without advancing it
nft_approve_same_counter(caller, deposit, token_id, account_id) ==
    IF ~assert_at_least_one_yocto(deposit)
    THEN LedgerPanic("Requires attached deposit of at least 1 yoctoNEAR")
    ELSE IF token_id \notin DOMAIN tokens_by_id THEN LedgerPanic("No token")
    ELSE LET token == tokens_by_id[token_id]
             approval_id == token.next_approval_id
             is_new_approval == account_id \notin DOMAIN token.approved_account_ids
             storage_used == IF is_new_approval
                             THEN bytes_for_approved_account_id(account_id) ELSE 0
             new_token == [token EXCEPT
                 !.approved_account_ids = MapPut(@, account_id, approval_id)]
         IN IF caller # token.owner_id
            THEN LedgerPanic("Predecessor must be the token owner.")
            ELSE IF ~refund_deposit_ok(storage_used, deposit)
            THEN LedgerPanic("Must attach yoctoNEAR to cover storage")
            ELSE [err |-> "ok",
                  tokens_by_id |-> MapPut(tokens_by_id, token_id, new_token),
                  tokens_per_owner |-> tokens_per_owner,
                  approval_id |-> approval_id, payout |-> EmptyMap,
                  previous_token |-> token,
                  refunds |-> refund_deposit(caller, storage_used, deposit)]

nft_approve(caller, deposit, token_id, account_id) ==
    IF ~assert_at_least_one_yocto(deposit)
    THEN LedgerPanic("Requires attached deposit of at least 1 yoctoNEAR")
    ELSE IF token_id \notin DOMAIN tokens_by_id THEN LedgerPanic("No token")
    ELSE LET token == tokens_by_id[token_id]
             approval_id == token.next_approval_id
             is_new_approval == account_id \notin DOMAIN token.approved_account_ids
             storage_used == IF is_new_approval
                             THEN bytes_for_approved_account_id(account_id) ELSE 0
             new_token == [token EXCEPT
                 !.approved_account_ids = MapPut(@, account_id, approval_id),
                 !.next_approval_id = @ + 1]
         IN IF caller # token.owner_id
            THEN LedgerPanic("Predecessor must be the token owner.")
            ELSE IF ~refund_deposit_ok(storage_used, deposit)
            THEN LedgerPanic("Must attach yoctoNEAR to cover storage")
            ELSE [err |-> "ok",
                  tokens_by_id |-> MapPut(tokens_by_id, token_id, new_token),
                  tokens_per_owner |-> tokens_per_owner,
                  approval_id |-> approval_id, payout |-> EmptyMap,
                  previous_token |-> token,
                  refunds |-> refund_deposit(caller, storage_used, deposit)]

nft_is_approved(token_id, approved_account_id, approval_id) ==
    LET token == tokens_by_id[token_id]
    IN IF approved_account_id \in DOMAIN token.approved_account_ids
       THEN IF approval_id.some
            THEN approval_id.id = token.approved_account_ids[approved_account_id]
            ELSE TRUE
       ELSE FALSE

\* nft_revoke refunding without writing the token back
nft_revoke_not_saved(caller, deposit, token_id, account_id) ==
    IF ~assert_one_yocto(deposit)
    THEN LedgerPanic("Requires attached deposit of exactly 1 yoctoNEAR")
    ELSE IF token_id \notin DOMAIN tokens_by_id THEN LedgerPanic("No token")
    ELSE LET token == tokens_by_id[token_id]
         IN IF caller # token.owner_id THEN LedgerPanic("assertion failed")
            ELSE [err |-> "ok", tokens_by_id |-> tokens_by_id,
                  tokens_per_owner |-> tokens_per_owner,
                  approval_id |-> 0, payout |-> EmptyMap, previous_token |-> token,
                  refunds |-> IF account_id \in DOMAIN token.approved_account_ids
                              THEN refund_approved_account_ids_iter(caller, {account_id})
                              ELSE EmptyBag]

nft_revoke(caller, deposit, token_id, account_id) ==
    IF ~assert_one_yocto(deposit)
    THEN LedgerPanic("Requires attached deposit of exactly 1 yoctoNEAR")
    ELSE IF token_id \notin DOMAIN tokens_by_id THEN LedgerPanic("No token")
    ELSE LET token == tokens_by_id[token_id]
         IN IF caller # token.owner_id THEN LedgerPanic("assertion failed")
            ELSE IF account_id \in DOMAIN token.approved_account_ids
            THEN [err |-> "ok",
                  tokens_by_id |-> MapPut(tokens_by_id, token_id,
                      [token EXCEPT !.approved_account_ids = MapDel(@, account_id)]),
                  tokens_per_owner |-> tokens_per_owner,
                  approval_id |-> 0, payout |-> EmptyMap, previous_token |-> token,
                  refunds |-> refund_approved_account_ids_iter(caller, {account_id})]
            ELSE [err |-> "ok", tokens_by_id |-> tokens_by_id,
                  tokens_per_owner |-> tokens_per_owner,
                  approval_id |-> 0, payout |-> EmptyMap, previous_token |-> token,
                  refunds |-> EmptyBag]

\* nft_revoke_all without the owner assert
nft_revoke_all_any_caller(caller, deposit, token_id) ==
    IF ~assert_one_yocto(deposit)
    THEN LedgerPanic("Requires attached deposit of exactly 1 yoctoNEAR")
    ELSE IF token_id \notin DOMAIN tokens_by_id THEN LedgerPanic("No token")
    ELSE LET token == tokens_by_id[token_id]
         IN IF token.approved_account_ids # EmptyMap
            THEN [err |-> "ok",
                  tokens_by_id |-> MapPut(tokens_by_id, token_id,
                      [token EXCEPT !.approved_account_ids = EmptyMap]),
                  tokens_per_owner |-> tokens_per_owner,
                  approval_id |-> 0, payout |-> EmptyMap, previous_token |-> token,
                  refunds |-> refund_approved_account_ids(caller,
                                                          token.approved_account_ids)]
            ELSE [err |-> "ok", tokens_by_id |-> tokens_by_id,
                  tokens_per_owner |-> tokens_per_owner,
                  approval_id |-> 0, payout |-> EmptyMap, previous_token |-> token,
                  refunds |-> EmptyBag]

nft_revoke_all(caller, deposit, token_id) ==
    IF ~assert_one_yocto(deposit)
    THEN LedgerPanic("Requires attached deposit of exactly 1 yoctoNEAR")
    ELSE IF token_id \notin DOMAIN tokens_by_id THEN LedgerPanic("No token")
    ELSE LET token == tokens_by_id[token_id]
         IN IF caller # token.owner_id THEN LedgerPanic("assertion failed")
            ELSE IF token.approved_account_ids # EmptyMap
            THEN [err |-> "ok",
                  tokens_by_id |-> MapPut(tokens_by_id, token_id,
                      [token EXCEPT !.approved_account_ids = EmptyMap]),
                  tokens_per_owner |-> tokens_per_owner,
                  approval_id |-> 0, payout |-> EmptyMap, previous_token |-> token,
                  refunds |-> refund_approved_account_ids(caller,
                                                          token.approved_account_ids)]
            ELSE [err |-> "ok", tokens_by_id |-> tokens_by_id,
                  tokens_per_owner |-> tokens_per_owner,
                  approval_id |-> 0, payout |-> EmptyMap, previous_token |-> token,
                  refunds |-> EmptyBag]

\* royalty_to_payout rounding up instead of down
royalty_to_payout_rounds_up(royalty_percentage, amount_to_pay) ==
    (royalty_percentage * amount_to_pay + 9999) \div 10000

royalty_to_payout(royalty_percentage, amount_to_pay) ==
    (royalty_percentage * amount_to_pay) \div 10000

internal_add_token_to_owner(per_owner, account_id, token_id) ==
    LET tokens_set == IF account_id \in DOMAIN per_owner THEN per_owner[account_id] ELSE {}
    IN MapPut(per_owner, account_id, tokens_set \cup {token_id})

\* The caller has checked that account_id holds a set ("Token should be owned
\* by the sender" otherwise).
\* internal_remove_token_from_owner keeping an account whose set became empty
internal_remove_token_from_owner_keeps_empty(per_owner, account_id, token_id) ==
    LET tokens_set == per_owner[account_id] \ {token_id}
    IN MapPut(per_owner, account_id, tokens_set)

internal_remove_token_from_owner(per_owner, account_id, token_id) ==
    LET tokens_set == per_owner[account_id] \ {token_id}
    IN IF tokens_set = {} THEN MapDel(per_owner, account_id)
       ELSE MapPut(per_owner, account_id, tokens_set)

\* internal_transfer giving the new owner a token with a fresh counter
internal_transfer_fresh_counter(sender_id, receiver_id, token_id, approval_id) ==
    IF token_id \notin DOMAIN tokens_by_id THEN LedgerPanic("No token")
    ELSE LET token == tokens_by_id[token_id]
             new_token == Token(receiver_id, EmptyMap, 0, token.royalty)
         IN IF /\ sender_id # token.owner_id
               /\ sender_id \notin DOMAIN token.approved_account_ids
            THEN LedgerPanic("Unauthorized")
            ELSE IF /\ sender_id # token.owner_id
                    /\ approval_id.some
                    /\ token.approved_account_ids[sender_id] # approval_id.id
            THEN LedgerPanic("The actual approval_id is different from the given approval_id")
            ELSE IF token.owner_id = receiver_id
            THEN LedgerPanic("The token owner and the receiver should be different")
            ELSE IF token.owner_id \notin DOMAIN tokens_per_owner
            THEN LedgerPanic("Token should be owned by the sender")
            ELSE [err |-> "ok",
                  tokens_by_id |-> MapPut(tokens_by_id, token_id, new_token),
                  tokens_per_owner |->
                      internal_add_token_to_owner(
                          internal_remove_token_from_owner(tokens_per_owner,
                                                           token.owner_id, token_id),
                          receiver_id, token_id),
                  approval_id |-> 0, payout |-> EmptyMap, previous_token |-> token,
                  refunds |-> EmptyBag]

\* internal_transfer accepting an approved sender whatever approval id it supplies
internal_transfer_any_approval_id(sender_id, receiver_id, token_id, approval_id) ==
    IF token_id \notin DOMAIN tokens_by_id THEN LedgerPanic("No token")
    ELSE LET token == tokens_by_id[token_id]
             new_token == Token(receiver_id, EmptyMap, token.next_approval_id,
                                token.royalty)
         IN IF /\ sender_id # token.owner_id
               /\ sender_id \notin DOMAIN token.approved_account_ids
            THEN LedgerPanic("Unauthorized")
            ELSE IF token.owner_id = receiver_id
            THEN LedgerPanic("The token owner and the receiver should be different")
            ELSE IF token.owner_id \notin DOMAIN tokens_per_owner
            THEN LedgerPanic("Token should be owned by the sender")
            ELSE [err |-> "ok",
                  tokens_by_id |-> MapPut(tokens_by_id, token_id, new_token),
                  tokens_per_owner |->
                      internal_add_token_to_owner(
                          internal_remove_token_from_owner(tokens_per_owner,
                                                           token.owner_id, token_id),
                          receiver_id, token_id),
                  approval_id |-> 0, payout |-> EmptyMap, previous_token |-> token,
                  refunds |-> EmptyBag]

\* internal_transfer handing the token over with its approvals
internal_transfer_keeps_approvals(sender_id, receiver_id, token_id, approval_id) ==
    IF token_id \notin DOMAIN tokens_by_id THEN LedgerPanic("No token")
    ELSE LET token == tokens_by_id[token_id]
             new_token == Token(receiver_id, token.approved_account_ids,
                                token.next_approval_id, token.royalty)
         IN IF /\ sender_id # token.owner_id
               /\ sender_id \notin DOMAIN token.approved_account_ids
            THEN LedgerPanic("Unauthorized")
            ELSE IF /\ sender_id # token.owner_id
                    /\ approval_id.some
                    /\ token.approved_account_ids[sender_id] # approval_id.id
            THEN LedgerPanic("The actual approval_id is different from the given approval_id")
            ELSE IF token.owner_id = receiver_id
            THEN LedgerPanic("The token owner and the receiver should be different")
            ELSE IF token.owner_id \notin DOMAIN tokens_per_owner
            THEN LedgerPanic("Token should be owned by the sender")
            ELSE [err |-> "ok",
                  tokens_by_id |-> MapPut(tokens_by_id, token_id, new_token),
                  tokens_per_owner |->
                      internal_add_token_to_owner(
                          internal_remove_token_from_owner(tokens_per_owner,
                                                           token.owner_id, token_id),
                          receiver_id, token_id),
                  approval_id |-> 0, payout |-> EmptyMap, previous_token |-> token,
                  refunds |-> EmptyBag]

internal_transfer(sender_id, receiver_id, token_id, approval_id) ==
    IF token_id \notin DOMAIN tokens_by_id THEN LedgerPanic("No token")
    ELSE LET token == tokens_by_id[token_id]
             new_token == Token(receiver_id, EmptyMap, token.next_approval_id,
                                token.royalty)
         IN IF /\ sender_id # token.owner_id
               /\ sender_id \notin DOMAIN token.approved_account_ids
            THEN LedgerPanic("Unauthorized")
            ELSE IF /\ sender_id # token.owner_id
                    /\ approval_id.some
                    /\ token.approved_account_ids[sender_id] # approval_id.id
            THEN LedgerPanic("The actual approval_id is different from the given approval_id")
            ELSE IF token.owner_id = receiver_id
            THEN LedgerPanic("The token owner and the receiver should be different")
            ELSE IF token.owner_id \notin DOMAIN tokens_per_owner
            THEN LedgerPanic("Token should be owned by the sender")
            ELSE [err |-> "ok",
                  tokens_by_id |-> MapPut(tokens_by_id, token_id, new_token),
                  tokens_per_owner |->
                      internal_add_token_to_owner(
                          internal_remove_token_from_owner(tokens_per_owner,
                                                           token.owner_id, token_id),
                          receiver_id, token_id),
                  approval_id |-> 0, payout |-> EmptyMap, previous_token |-> token,
                  refunds |-> EmptyBag]

\* The payout loop shared by nft_payout and nft_transfer_payout.
RECURSIVE total_perpetual(_, _, _)
total_perpetual(owner_id, royalty, todo) ==
    IF todo = {} THEN 0
    ELSE LET k == CHOOSE x \in todo : TRUE
         IN (IF k # owner_id THEN royalty[k] ELSE 0)
              + total_perpetual(owner_id, royalty, todo \ {k})

\* payout_object counting the owner's own royalty entry in total_perpetual
payout_object_counts_owner(owner_id, royalty, balance) ==
    LET others == DOMAIN royalty \ {owner_id}
        total == total_perpetual("", royalty, DOMAIN royalty)
    IN [k \in others \cup {owner_id} |->
           IF k = owner_id THEN royalty_to_payout(10000 - total, balance)
           ELSE royalty_to_payout(royalty[k], balance)]

payout_object(owner_id, royalty, balance) ==
    LET others == DOMAIN royalty \ {owner_id}
        total == total_perpetual(owner_id, royalty, DOMAIN royalty)
    IN [k \in others \cup {owner_id} |->
           IF k = owner_id THEN royalty_to_payout(10000 - total, balance)
           ELSE royalty_to_payout(royalty[k], balance)]

nft_payout(token_id, balance, max_len_payout) ==
    IF token_id \notin DOMAIN tokens_by_id THEN LedgerPanic("No token")
    ELSE LET token == tokens_by_id[token_id]
         IN IF ~(Cardinality(DOMAIN token.royalty) <= max_len_payout)
            THEN LedgerPanic("Market cannot payout to that many receivers")
            ELSE [err |-> "ok", tokens_by_id |-> tokens_by_id,
                  tokens_per_owner |-> tokens_per_owner, approval_id |-> 0,
                  payout |-> payout_object(token.owner_id, token.royalty, balance),
                  previous_token |-> token, refunds |-> EmptyBag]

\* nft_transfer_payout not enforcing the approval id it was given
nft_transfer_payout_no_approval_id(sender_id, deposit, receiver_id, token_id, approval_id, balance, max_len_payout) ==
    IF ~assert_one_yocto(deposit)
    THEN LedgerPanic("Requires attached deposit of exactly 1 yoctoNEAR")
    ELSE LET t == internal_transfer(sender_id, receiver_id, token_id, None)
             previous_token == t.previous_token
         IN IF t.err # "ok" THEN LedgerPanic(t.err)
            ELSE IF ~(Cardinality(DOMAIN previous_token.royalty) <= max_len_payout)
            THEN LedgerPanic("Market cannot payout to that many receivers")
            ELSE [err |-> "ok", tokens_by_id |-> t.tokens_by_id,
                  tokens_per_owner |-> t.tokens_per_owner, approval_id |-> 0,
                  payout |-> payout_object(previous_token.owner_id,
                                           previous_token.royalty, balance),
                  previous_token |-> previous_token,
                  refunds |-> refund_approved_account_ids(
                                  previous_token.owner_id,
                                  previous_token.approved_account_ids)]

\* nft_transfer_payout whose failed recipient-count check leaves the transfer applied
nft_transfer_payout_keeps_transfer(sender_id, deposit, receiver_id, token_id, approval_id, balance, max_len_payout) ==
    IF ~assert_one_yocto(deposit)
    THEN LedgerPanic("Requires attached deposit of exactly 1 yoctoNEAR")
    ELSE LET t == internal_transfer(sender_id, receiver_id, token_id, Some(approval_id))
             previous_token == t.previous_token
         IN IF t.err # "ok" THEN LedgerPanic(t.err)
            ELSE IF ~(Cardinality(DOMAIN previous_token.royalty) <= max_len_payout)
            THEN [LedgerPanic("Market cannot payout to that many receivers") EXCEPT
                     !.tokens_by_id = t.tokens_by_id,
                     !.tokens_per_owner = t.tokens_per_owner]
            ELSE [err |-> "ok", tokens_by_id |-> t.tokens_by_id,
                  tokens_per_owner |-> t.tokens_per_owner, approval_id |-> 0,
                  payout |-> payout_object(previous_token.owner_id,
                                           previous_token.royalty, balance),
                  previous_token |-> previous_token,
                  refunds |-> refund_approved_account_ids(
                                  previous_token.owner_id,
                                  previous_token.approved_account_ids)]

\* nft_transfer_payout computing the payout for the token's new owner
nft_transfer_payout_pays_receiver(sender_id, deposit, receiver_id, token_id, approval_id, balance, max_len_payout) ==
    IF ~assert_one_yocto(deposit)
    THEN LedgerPanic("Requires attached deposit of exactly 1 yoctoNEAR")
    ELSE LET t == internal_transfer(sender_id, receiver_id, token_id, Some(approval_id))
             previous_token == t.previous_token
         IN IF t.err # "ok" THEN LedgerPanic(t.err)
            ELSE IF ~(Cardinality(DOMAIN previous_token.royalty) <= max_len_payout)
            THEN LedgerPanic("Market cannot payout to that many receivers")
            ELSE [err |-> "ok", tokens_by_id |-> t.tokens_by_id,
                  tokens_per_owner |-> t.tokens_per_owner, approval_id |-> 0,
                  payout |-> payout_object(receiver_id,
                                           previous_token.royalty, balance),
                  previous_token |-> previous_token,
                  refunds |-> refund_approved_account_ids(
                                  previous_token.owner_id,
                                  previous_token.approved_account_ids)]

nft_transfer_payout(sender_id, deposit, receiver_id, token_id, approval_id, balance, max_len_payout) ==
    IF ~assert_one_yocto(deposit)
    THEN LedgerPanic("Requires attached deposit of exactly 1 yoctoNEAR")
    ELSE LET t == internal_transfer(sender_id, receiver_id, token_id, Some(approval_id))
             previous_token == t.previous_token
         IN IF t.err # "ok" THEN LedgerPanic(t.err)
            ELSE IF ~(Cardinality(DOMAIN previous_token.royalty) <= max_len_payout)
            THEN LedgerPanic("Market cannot payout to that many receivers")
            ELSE [err |-> "ok", tokens_by_id |-> t.tokens_by_id,
                  tokens_per_owner |-> t.tokens_per_owner, approval_id |-> 0,
                  payout |-> payout_object(previous_token.owner_id,
                                           previous_token.royalty, balance),
                  previous_token |-> previous_token,
                  refunds |-> refund_approved_account_ids(
                                  previous_token.owner_id,
                                  previous_token.approved_account_ids)]

(***************************************************************************)
(* nft-contract: calls                                                     *)
(***************************************************************************)
NoLedgerCall ==
    [op |-> "none", caller |-> "", deposit |-> 0, token_id |-> "", account_id |-> "",
     approval_id |-> 0, balance |-> 0, max_len_payout |-> 0, err |-> "ok",
     payout |-> EmptyMap, previous_token |-> NoToken]

Commit(o) ==
    /\ tokens_by_id' = o.tokens_by_id
    /\ tokens_per_owner' = o.tokens_per_owner

NftApprove(caller, deposit, token_id, account_id) ==
    LET o == nft_approve(caller, deposit, token_id, account_id)
    IN /\ tokens_by_id[token_id].next_approval_id < MaxApprovals
       /\ Commit(o)
       /\ handed' = IF o.err = "ok"
                    THEN [handed EXCEPT ![token_id] = Append(@, o.approval_id)]
                    ELSE handed
       /\ nlast' = [NoLedgerCall EXCEPT !.op = "nft_approve", !.caller = caller,
                        !.deposit = deposit, !.token_id = token_id,
                        !.account_id = account_id, !.approval_id = o.approval_id,
                        !.err = o.err, !.previous_token = o.previous_token]
       /\ UNCHANGED mvars

NftRevoke(caller, deposit, token_id, account_id) ==
    LET o == nft_revoke(caller, deposit, token_id, account_id)
    IN /\ Commit(o)
       /\ nlast' = [NoLedgerCall EXCEPT !.op = "nft_revoke", !.caller = caller,
                        !.deposit = deposit, !.token_id = token_id,
                        !.account_id = account_id, !.err = o.err,
                        !.previous_token = o.previous_token]
       /\ UNCHANGED <<handed, mvars>>

NftRevokeAll(caller, deposit, token_id) ==
    LET o == nft_revoke_all(caller, deposit, token_id)
    IN /\ Commit(o)
       /\ nlast' = [NoLedgerCall EXCEPT !.op = "nft_revoke_all", !.caller = caller,
                        !.deposit = deposit, !.token_id = token_id, !.err = o.err,
                        !.previous_token = o.previous_token]
       /\ UNCHANGED <<handed, mvars>>

NftTransferPayout(sender_id, deposit, receiver_id, token_id, approval_id, balance, max_len_payout) ==
    LET o == nft_transfer_payout(sender_id, deposit, receiver_id, token_id,
                                 approval_id, balance, max_len_payout)
    IN /\ Commit(o)
       /\ nlast' = [NoLedgerCall EXCEPT !.op = "nft_transfer_payout",
                        !.caller = sender_id, !.deposit = deposit,
                        !.token_id = token_id, !.account_id = receiver_id,
                        !.approval_id = approval_id, !.balance = balance,
                        !.max_len_payout = max_len_payout, !.err = o.err,
                        !.payout = o.payout, !.previous_token = o.previous_token]
       /\ UNCHANGED <<handed, mvars>>

\* The ledger after the two tokens were minted.
Royalties ==
    {[a \in {"alice", "bob"} |-> IF a = "alice" THEN 8000 ELSE 2000],
     [a \in {"bob", "market"} |-> IF a = "bob" THEN 1000 ELSE 500]}

Minted(royalty) ==
    /\ tokens_by_id = [t \in LedgerTokens |->
           IF t = "t1" THEN Token("alice", EmptyMap, 0, royalty)
           ELSE Token("bob", EmptyMap, 0, EmptyMap)]
    /\ tokens_per_owner = [a \in {"alice", "bob"} |->
           IF a = "alice" THEN {"t1"} ELSE {"t2"}]
    /\ nlast = NoLedgerCall
    /\ handed = [t \in LedgerTokens |-> <<>>]

MarketFresh ==
    /\ sales = EmptyMap
    /\ purchases = [s \in Slots |-> IdlePurchase]
    /\ last = NoCall
    /\ issued = [k \in Keys |-> 0]

LedgerInit == MarketFresh /\ \E r \in Royalties : Minted(r)

LedgerNext ==
    \/ \E who \in LedgerAccounts, d \in ApproveDeposits, t \in CallTokens,
          a \in LedgerAccounts : NftApprove(who, d, t, a)
    \/ \E who \in LedgerAccounts, t \in CallTokens, a \in LedgerAccounts :
          NftRevoke(who, 1, t, a)
    \/ \E who \in LedgerAccounts, t \in CallTokens : NftRevokeAll(who, 1, t)
    \/ \E who \in LedgerAccounts, d \in YoctoDeposits, to \in LedgerAccounts,
          t \in CallTokens, a \in ApprovalArgs, b \in Balances, n \in MaxLens :
          NftTransferPayout(who, d, to, t, a, b, n)

SpecLedger == LedgerInit /\ [][LedgerNext]_vars

(***************************************************************************)
(* Remote outcomes                                                         *)
(***************************************************************************)
Failed == [kind |-> "Failed", decodable |-> FALSE, payout |-> EmptyMap]
NotReady == [kind |-> "NotReady", decodable |-> FALSE, payout |-> EmptyMap]
Undecodable == [kind |-> "Successful", decodable |-> FALSE, payout |-> EmptyMap]
Returned(payout) == [kind |-> "Successful", decodable |-> TRUE, payout |-> payout]

\* What the market specification lets a remote contract answer for a request.
SampleResults(balance) ==
    {Failed}
      \cup {Returned([x \in {"alice"} |-> balance])}
      \cup {Returned([x \in {"alice"} |-> balance - 1])}
      \cup {Returned([x \in {"alice"} |-> balance + 1])}

\* Every outcome the callback is checked against: no value, an undecodable
\* value, and payouts over the accounts with amounts up to one more than the
\* largest amount carried, alone or with further zero-amount recipients that
\* bring the entry count to either side of the limit.
Fillers == {"f1", "f2", "f3", "f4", "f5", "f6", "f7", "f8", "f9"}
FillerSets == {{}, Fillers \ {"f9"}, Fillers}
Amounts == 0..(MaxPrice + 1)
Padded(m, F) == [x \in DOMAIN m \cup F |-> IF x \in DOMAIN m THEN m[x] ELSE 0]
Payouts ==
    {Padded(m, F) : m \in UNION {[D -> Amounts] : D \in SUBSET Accounts},
                    F \in FillerSets}
RemoteResults == {Failed, NotReady, Undecodable} \cup {Returned(m) : m \in Payouts}

MarketInit == MarketFresh /\ Minted(EmptyMap)

MarketNext ==
    \/ \E c \in ContractIds, t \in TokenIds, p \in Prices :
          ListSale(ListedOwner[t], c, t, ListedApproval[t], p)
    \/ \E who \in Accounts, d \in YoctoDeposits, c \in ContractIds, t \in TokenIds :
          RemoveSale(who, d, c, t)
    \/ \E who \in Accounts, d \in YoctoDeposits, c \in ContractIds, t \in TokenIds,
          p \in Prices : UpdatePrice(who, d, c, t, p)
    \/ \E who \in Accounts, d \in Deposits, c \in ContractIds, t \in TokenIds :
          Offer(who, d, c, t)
    \/ \E s \in Slots : \E r \in SampleResults(purchases[s].callback.price) :
          ResolvePurchase(s, r)

SpecMarket == MarketInit /\ [][MarketNext]_vars

\* The runtime delivers the outcome of every remote call: the callback of a
\* purchase in flight eventually runs.
PurchaseNext ==
    \/ \E c \in ContractIds, t \in TokenIds, p \in Prices :
          ListSale(ListedOwner[t], c, t, ListedApproval[t], p)
    \/ \E who \in Accounts, d \in Deposits, c \in ContractIds, t \in TokenIds :
          Offer(who, d, c, t)
    \/ \E s \in Slots : \E r \in SampleResults(purchases[s].callback.price) :
          ResolvePurchase(s, r)

SpecMarketFair ==
    /\ MarketInit /\ [][PurchaseNext]_vars
    /\ \A s \in Slots :
          WF_vars(\E r \in SampleResults(purchases[s].callback.price) :
                     ResolvePurchase(s, r))

(***************************************************************************)
(* Claims about the market                                                 *)
(***************************************************************************)
LastKey(l) == contract_and_token_id(l.nft_contract_id, l.token_id)
ErrDepositZero == "Attached deposit must be greater than 0"
ErrNoSale == "No sale"
ErrSelf == "Cannot bid on your own sale."
ErrLowOffer == "Attached deposit must be greater than or equal to the current price"
ErrOneYocto == "Requires attached deposit of exactly 1 yoctoNEAR"
ErrNotOwner == "Must be sale owner"

C1_Counts ==
    \A k \in Keys : issued[k] <= 1 /\ (k \in DOMAIN sales => issued[k] = 0)

C1_OfferOnRemoved ==
    (last'.op = "offer" /\ LastKey(last') \notin DOMAIN sales)
        => /\ last'.err # "ok"
           /\ last'.deposit > 0 => last'.err = ErrNoSale
           /\ last'.requests = <<>>
           /\ purchases' = purchases
           /\ issued' = issued
           /\ sales' = sales

C1_OnlyListingCreates ==
    \A k \in Keys : (k \notin DOMAIN sales /\ k \in DOMAIN sales') => last'.op = "list"

\* C1: a listing is purchased at most once.  Per key, at most one remote
\* nft_transfer_payout request is issued between two listings of the key, and
\* none while the Sale is still listed; once the Sale is gone (purchased or
\* removed) every offer on the key fails, with "No sale" whenever a deposit is
\* attached, issues no request and changes nothing; only a listing brings the
\* key back.
C1_PurchasedAtMostOnce ==
    /\ []C1_Counts
    /\ [][C1_OfferOnRemoved]_vars
    /\ [][C1_OnlyListingCreates]_vars

\* A second offer on a purchased listing has just failed with "No sale".
C1_Witness ==
    /\ last.op = "offer"
    /\ last.err = ErrNoSale
    /\ issued[LastKey(last)] = 1

\* The offer preconditions, read in the state the call is made in.
OfferPreconditionFails(buyer_id, deposit, key) ==
    \/ deposit = 0
    \/ key \notin DOMAIN sales
    \/ sales[key].owner_id = buyer_id
    \/ deposit < sales[key].sale_conditions

C7_Step ==
    (last'.op = "offer" /\ OfferPreconditionFails(last'.caller, last'.deposit, LastKey(last')))
        => /\ last'.err \in {ErrDepositZero, ErrNoSale, ErrSelf, ErrLowOffer}
           /\ sales' = sales
           /\ purchases' = purchases
           /\ issued' = issued
           /\ last'.requests = <<>>
           /\ last'.slot = 0

\* C7: an offer that fails a precondition (nothing attached, no Sale under the
\* key, the buyer is the Sale's owner, or less than the price attached) fails,
\* leaves the registry as it was, and issues neither a remote request nor a
\* callback.
C7_FailedOfferChangesNothing == [][C7_Step]_vars

\* An offer of 1 against a Sale listed at 2 has just failed; the Sale is listed.
C7_Witness ==
    /\ last.op = "offer"
    /\ last.err = ErrLowOffer
    /\ last.deposit = 1
    /\ LastKey(last) \in DOMAIN sales
    /\ sales[LastKey(last)].sale_conditions = 2

C8_Step ==
    LET k == LastKey(last')
    IN last'.op = "remove_sale" =>
         /\ (k \in DOMAIN sales /\ last'.caller # sales[k].owner_id)
               => /\ last'.err \in {ErrNotOwner, ErrOneYocto}
                  /\ last'.deposit = 1 => last'.err = ErrNotOwner
                  /\ sales' = sales
         /\ sales' # sales
               => /\ k \in DOMAIN sales
                  /\ last'.caller = sales[k].owner_id
                  /\ last'.deposit = 1
                  /\ last'.err = "ok"
                  /\ sales' = MapDel(sales, k)

\* C8: remove_sale by an account other than the Sale's stored owner fails
\* ("Must be sale owner" when exactly one yocto is attached) and leaves the
\* Sale in the registry unchanged; a remove_sale call removes a Sale only when
\* the stored owner makes it with exactly one yocto attached.
C8_OnlyOwnerRemoves == [][C8_Step]_vars

\* A non-owner's remove_sale with one yocto has just failed; the Sale is listed.
C8_Witness ==
    /\ last.op = "remove_sale"
    /\ last.err = ErrNotOwner
    /\ last.deposit = 1
    /\ LastKey(last) \in DOMAIN sales
    /\ sales[LastKey(last)].owner_id # last.caller

Terminal == {"Refund", "Distribute"}

C4_Step ==
    /\ \A s \in Slots :
          /\ (purchases[s].status = "Initiating" /\ purchases'[s] # purchases[s])
                => /\ last'.op = "resolve_purchase" /\ last'.slot = s
                   /\ purchases'[s].status = "Idle"
          /\ (purchases[s].status # "Initiating" /\ purchases'[s].status = "Initiating")
                => last'.op = "offer" /\ last'.err = "ok" /\ last'.slot = s
    /\ last'.op = "resolve_purchase"
          => /\ last'.slot \in Slots
             /\ purchases[last'.slot].status = "Initiating"
             /\ purchases'[last'.slot].status = "Idle"
             /\ last'.terminal \in Terminal
             /\ last'.terminal = "Refund"
                   => last'.transfers = SetToBag({<<last'.caller, last'.price>>})
             /\ last'.terminal = "Distribute"
                   => last'.transfers = TransfersOf(last'.result.payout)

\* C4: every purchase that process_purchase put in flight is eventually
\* resolved, given that the outcome of its remote call is delivered; a purchase
\* leaves the Initiating state only through its own resolve_purchase callback,
\* which runs for a purchase in flight only, ends it, and takes exactly one of
\* the two terminal paths, Refund or Distribute.
C4_ResolvedExactlyOnce ==
    /\ \A s \in Slots :
          (purchases[s].status = "Initiating")
              ~> (last.op = "resolve_purchase" /\ last.slot = s
                    /\ last.terminal \in Terminal)
    /\ [][C4_Step]_vars

\* A purchase has just been refunded while the other one is still in flight.
C4_Witness ==
    /\ last.op = "resolve_purchase"
    /\ last.terminal = "Refund"
    /\ purchases[last.slot].status = "Idle"
    /\ \E s \in Slots : purchases[s].status = "Initiating"

C5_Settled(amount) ==
    (last.op = "offer" /\ last.err = "ok")
        => /\ Len(last.requests) = 1
           /\ last.requests[1].balance = amount
           /\ last.slot \in Slots
           /\ purchases[last.slot].status = "Initiating"
           /\ purchases[last.slot].callback.price = amount

\* C5 as stated: a successful offer settles at the Sale's listed price.
C5_SettlesListedPrice == C5_Settled(last.price)

\* C5, amended: a successful offer hands the attached deposit, which is at
\* least the listed price, to process_purchase: it is the balance of the remote
\* nft_transfer_payout request and the price carried to resolve_purchase.
C5_SettlesAttachedDeposit ==
    /\ C5_Settled(last.deposit)
    /\ (last.op = "offer" /\ last.err = "ok") => last.deposit >= last.price

\* An offer of 2 on a Sale listed at 1 has just been accepted.
C5_Witness ==
    /\ last.op = "offer" /\ last.err = "ok"
    /\ last.price = 1 /\ last.deposit = 2
    /\ last.requests[1].balance = 2

C6_Step ==
    /\ \A s \in Slots :
          (last'.op = "resolve_purchase" /\ last'.slot = s)
              => /\ purchases[s].status = "Initiating"
                 /\ last'.ret = purchases[s].callback.price
                 /\ last'.terminal \in Terminal
    /\ (last'.op = "offer" /\ last'.err = "ok")
          => /\ purchases'[last'.slot].callback.price = last'.deposit
             /\ last'.deposit >= last'.price
    /\ \A s \in Slots :
          (purchases[s].status = "Initiating" /\ purchases'[s] # purchases[s])
              => last'.op = "resolve_purchase" /\ last'.slot = s

\* C6 as stated, for a purchase resolved right after the offer that started
\* it: resolve_purchase returns the Sale's listed price.
C6_ReturnsListedPrice ==
    [][(last.op = "offer" /\ last.err = "ok"
          /\ last'.op = "resolve_purchase" /\ last'.slot = last.slot)
         => last'.ret = last.price]_vars

\* C6, amended: resolve_purchase returns the amount its purchase carries,
\* whichever terminal path it takes; that amount is the deposit attached to the
\* offer that started the purchase, which is at least the listed price, and
\* nothing changes it while the purchase is in flight.
C6_ReturnsCarriedAmount == [][C6_Step]_vars

\* A purchase carrying 2 has just been distributed and returned 2.
C6_Witness ==
    /\ last.op = "resolve_purchase"
    /\ last.terminal = "Distribute"
    /\ last.price = 2 /\ last.ret = 2

(***************************************************************************)
(* resolve_purchase on its own: one purchase in flight, every outcome      *)
(***************************************************************************)
ResolveInit ==
    /\ sales = EmptyMap
    /\ \E b \in Accounts, p \in 1..MaxPrice :
          purchases = [s \in Slots |->
              IF s = 1
              THEN [status |-> "Initiating",
                    request |-> [contract |-> "nft", receiver_id |-> b,
                                 token_id |-> "t1", approval_id |-> 0,
                                 balance |-> p,
                                 max_len_payout |-> RequestMaxLenPayout],
                    callback |-> [buyer_id |-> b, price |-> p],
                    result |-> NoResult]
              ELSE IdlePurchase]
    /\ last = NoCall
    /\ issued = [k \in Keys |-> 0]
    /\ Minted(EmptyMap)

ResolveNext == \E r \in RemoteResults : ResolvePurchase(1, r)

SpecResolve == ResolveInit /\ [][ResolveNext]_vars

RECURSIVE SumOf(_, _)
SumOf(m, D) ==
    IF D = {} THEN 0
    ELSE LET k == CHOOSE x \in D : TRUE IN m[k] + SumOf(m, D \ {k})

Total(m) == SumOf(m, DOMAIN m)

\* The outcome gives resolve_purchase no payout it may distribute.
Rejected(price, r) ==
    \/ r.kind # "Successful"
    \/ ~r.decodable
    \/ DOMAIN r.payout = {}
    \/ Cardinality(DOMAIN r.payout) > 10
    \/ Total(r.payout) > price
    \/ Total(r.payout) < price - 1

\* C2: when the remote result is a failure or absent, does not decode to a
\* Payout, is an empty map, has more than 10 entries, or sums to more than
\* price or to less than price - 1, resolve_purchase issues exactly one
\* transfer, the full price to the buyer, and nothing to a payout recipient.
C2_RefundOnBadPayout ==
    (last.op = "resolve_purchase" /\ Rejected(last.price, last.result))
        => /\ last.transfers = SetToBag({<<last.caller, last.price>>})
           /\ BagCardinality(last.transfers) = 1
           /\ last.terminal = "Refund"

\* A payout of 11 entries that sums to the price has just been refunded.
C2_Witness ==
    /\ last.op = "resolve_purchase"
    /\ last.result.kind = "Successful" /\ last.result.decodable
    /\ Cardinality(DOMAIN last.result.payout) = 11
    /\ Total(last.result.payout) = last.price
    /\ last.terminal = "Refund"

\* C3: when the remote result decodes to a Payout of 1 to 10 entries that sum
\* to price or price - 1, resolve_purchase issues exactly one transfer per
\* entry, of the entry's amount to the entry's recipient, and nothing else:
\* no refund of the price to the buyer.
C3_DistributeValidPayout ==
    (last.op = "resolve_purchase" /\ ~Rejected(last.price, last.result))
        => /\ BagToSet(last.transfers) =
                 {<<r, last.result.payout[r]>> : r \in DOMAIN last.result.payout}
           /\ \A e \in BagToSet(last.transfers) : CopiesIn(e, last.transfers) = 1
           /\ BagCardinality(last.transfers) = Cardinality(DOMAIN last.result.payout)
           /\ last.terminal = "Distribute"

\* A payout of 10 entries that sums to price - 1 has just been distributed.
C3_Witness ==
    /\ last.op = "resolve_purchase"
    /\ last.result.kind = "Successful" /\ last.result.decodable
    /\ Cardinality(DOMAIN last.result.payout) = 10
    /\ Total(last.result.payout) = last.price - 1
    /\ last.terminal = "Distribute"
    /\ BagCardinality(last.transfers) = 10

(***************************************************************************)
(* Claims about the ledger's approvals                                     *)
(***************************************************************************)
AnyApprovalId == {None} \cup {Some(j) : j \in 0..(MaxApprovals + 1)}

\* C9: after a successful nft_approve(token, account), which assigned id k,
\* nft_is_approved(token, account, k) and nft_is_approved(token, account, none)
\* are true and nft_is_approved(token, account, j) is false for every j # k;
\* after a successful nft_revoke(token, account) nft_is_approved(token,
\* account, any) is false, and after a successful nft_revoke_all(token) it is
\* false for every account.
C9_ApprovedUntilRevoked ==
    LET t == nlast.token_id
        a == nlast.account_id
        k == nlast.approval_id
    IN /\ (nlast.op = "nft_approve" /\ nlast.err = "ok")
             => /\ nft_is_approved(t, a, Some(k))
                /\ nft_is_approved(t, a, None)
                /\ \A j \in 0..(MaxApprovals + 1) :
                      j # k => ~nft_is_approved(t, a, Some(j))
       /\ (nlast.op = "nft_revoke" /\ nlast.err = "ok")
             => \A x \in AnyApprovalId : ~nft_is_approved(t, a, x)
       /\ (nlast.op = "nft_revoke_all" /\ nlast.err = "ok")
             => \A b \in LedgerAccounts, x \in AnyApprovalId :
                   ~nft_is_approved(t, b, x)

\* The owner has just revoked an account that held approval id 1.
C9_Witness ==
    /\ nlast.op = "nft_revoke" /\ nlast.err = "ok"
    /\ nlast.account_id \in DOMAIN nlast.previous_token.approved_account_ids
    /\ nlast.previous_token.approved_account_ids[nlast.account_id] = 1
    /\ ~nft_is_approved(nlast.token_id, nlast.account_id, None)

StrictlyIncreasing(ids) == \A i \in 1..(Len(ids) - 1) : ids[i] < ids[i + 1]

C10_Handed == \A t \in LedgerTokens : StrictlyIncreasing(handed[t])

C10_Counter ==
    /\ \A t \in LedgerTokens :
          tokens_by_id'[t].next_approval_id >= tokens_by_id[t].next_approval_id
    /\ (nlast'.op = "nft_approve" /\ nlast'.err = "ok")
          => /\ nlast'.approval_id = tokens_by_id[nlast'.token_id].next_approval_id
             /\ tokens_by_id'[nlast'.token_id].next_approval_id
                   > tokens_by_id[nlast'.token_id].next_approval_id

\* C10: per token, the approval ids handed out by successive successful
\* nft_approve calls are strictly increasing (so none is handed out twice),
\* whatever approvals, revocations and transfers come in between; each id
\* handed out is the counter's value before the call, and next_approval_id
\* never decreases.
C10_IdsStrictlyIncrease ==
    /\ []C10_Handed
    /\ [][C10_Counter]_vars

\* A new owner has just been handed the second approval id of the token.
C10_Witness ==
    /\ nlast.op = "nft_approve" /\ nlast.err = "ok"
    /\ Len(handed[nlast.token_id]) = 2
    /\ nlast.caller # "alice"
    /\ tokens_by_id[nlast.token_id].approved_account_ids
          = [a \in {nlast.account_id} |-> nlast.approval_id]

\* C11: in every reachable ledger state, for every token, every approval id
\* stored in approved_account_ids is strictly less than the token's
\* next_approval_id, and no two accounts of the token hold the same id.
C11_StoredIdsBelowCounter ==
    \A t \in DOMAIN tokens_by_id :
        LET token == tokens_by_id[t]
            approved == token.approved_account_ids
        IN /\ \A a \in DOMAIN approved : approved[a] < token.next_approval_id
           /\ \A a, b \in DOMAIN approved : approved[a] = approved[b] => a = b

\* The owner has just approved a second account of the token.
C11_Witness ==
    \E t \in DOMAIN tokens_by_id :
        /\ tokens_by_id[t].owner_id = "alice"
        /\ Cardinality(DOMAIN tokens_by_id[t].approved_account_ids) = 2
        /\ nlast.op = "nft_approve" /\ nlast.err = "ok"

(***************************************************************************)
(* Claims about nft_transfer_payout                                        *)
(***************************************************************************)
ErrUnauthorized == "Unauthorized"
ErrApprovalMismatch == "The actual approval_id is different from the given approval_id"
ErrSameOwner == "The token owner and the receiver should be different"
ErrTooManyReceivers == "Market cannot payout to that many receivers"

\* The three rejected cases of a transfer, on the token as it is before the call.
Unauthorized(token, caller) ==
    caller # token.owner_id /\ caller \notin DOMAIN token.approved_account_ids

ApprovalMismatch(token, caller, approval_id) ==
    /\ caller # token.owner_id
    /\ caller \in DOMAIN token.approved_account_ids
    /\ token.approved_account_ids[caller] # approval_id

SameOwnerTransfer(token, receiver_id) == receiver_id = token.owner_id

C12_Step ==
    nlast'.op = "nft_transfer_payout" =>
        LET token == tokens_by_id[nlast'.token_id]
            a == Unauthorized(token, nlast'.caller)
            b == ApprovalMismatch(token, nlast'.caller, nlast'.approval_id)
            c == SameOwnerTransfer(token, nlast'.account_id)
        IN (a \/ b \/ c) =>
              /\ nlast'.err # "ok"
              /\ nlast'.payout = EmptyMap
              /\ tokens_by_id' = tokens_by_id
              /\ tokens_per_owner' = tokens_per_owner
              /\ nlast'.deposit = 1 =>
                    nlast'.err = IF a THEN ErrUnauthorized
                                 ELSE IF b THEN ErrApprovalMismatch
                                 ELSE ErrSameOwner

\* C12: nft_transfer_payout fails, leaving the token record and the holders'
\* token sets unchanged and returning no Payout, whenever the caller is
\* neither owner nor approved (Unauthorized), or is an approved non-owner
\* whose recorded approval id differs from the supplied one (approval
\* mismatch), or the receiver is the current owner (same-owner transfer).
C12_RejectedTransferChangesNothing == [][C12_Step]_vars

\* An approved account has just been rejected for supplying a stale id.
C12_Witness ==
    /\ nlast.op = "nft_transfer_payout"
    /\ nlast.err = ErrApprovalMismatch
    /\ nlast.caller \in DOMAIN tokens_by_id[nlast.token_id].approved_account_ids
    /\ nlast.account_id # tokens_by_id[nlast.token_id].owner_id

\* The tokens an account holds.
Holdings(per_owner, account_id) ==
    IF account_id \in DOMAIN per_owner THEN per_owner[account_id] ELSE {}

C13_Step ==
    (nlast'.op = "nft_transfer_payout" /\ nlast'.err = "ok") =>
        LET t == nlast'.token_id
            receiver_id == nlast'.account_id
            old == tokens_by_id[t]
            new == tokens_by_id'[t]
        IN /\ new.owner_id = receiver_id
           /\ Holdings(tokens_per_owner', old.owner_id)
                 = Holdings(tokens_per_owner, old.owner_id) \ {t}
           /\ Holdings(tokens_per_owner', receiver_id)
                 = Holdings(tokens_per_owner, receiver_id) \cup {t}
           /\ \A a \in LedgerAccounts \ {old.owner_id, receiver_id} :
                 Holdings(tokens_per_owner', a) = Holdings(tokens_per_owner, a)
           /\ new.approved_account_ids = EmptyMap
           /\ new.next_approval_id = old.next_approval_id
           /\ new.royalty = old.royalty
           /\ DOMAIN tokens_by_id' = DOMAIN tokens_by_id
           /\ \A u \in DOMAIN tokens_by_id \ {t} : tokens_by_id'[u] = tokens_by_id[u]

\* C13: a successful nft_transfer_payout sets owner_id to the receiver, moves
\* the token from the previous owner's holdings to the receiver's, leaves the
\* approved-account set empty, keeps next_approval_id and the royalty map, and
\* leaves every other token's record unchanged.
C13_TransferEffect == [][C13_Step]_vars

\* An approved account has just moved a token that had an approval and a
\* used counter to an account that already held another token.
C13_Witness ==
    /\ nlast.op = "nft_transfer_payout" /\ nlast.err = "ok"
    /\ nlast.caller # nlast.previous_token.owner_id
    /\ nlast.previous_token.approved_account_ids # EmptyMap
    /\ tokens_by_id[nlast.token_id].next_approval_id > 0
    /\ Cardinality(Holdings(tokens_per_owner, nlast.account_id)) = 2
    /\ nlast.previous_token.owner_id \notin DOMAIN tokens_per_owner

(***************************************************************************)
(* Payouts: nft_payout and nft_transfer_payout over many royalty maps      *)
(***************************************************************************)
PayoutOwners == {"alice", "carol"}
PayoutBeneficiaries == {"alice", "bob", "market"}
BpsValues == {1, 3333, 5000}
PayoutBalances == {0, 1, 3, 1000, 200000}
PayoutMaxLens == {1, 2, 3}

RECURSIVE SumBps(_, _)
SumBps(royalty, todo) ==
    IF todo = {} THEN 0
    ELSE LET k == CHOOSE x \in todo : TRUE
         IN royalty[k] + SumBps(royalty, todo \ {k})

TotalBps(royalty) == SumBps(royalty, DOMAIN royalty)

PayoutRoyalties ==
    Royalties \cup
    {r \in UNION {[B -> BpsValues] : B \in SUBSET PayoutBeneficiaries} :
        TotalBps(r) <= 10000}

NftPayout(token_id, balance, max_len_payout) ==
    LET o == nft_payout(token_id, balance, max_len_payout)
    IN /\ nlast' = [NoLedgerCall EXCEPT !.op = "nft_payout", !.token_id = token_id,
                        !.balance = balance, !.max_len_payout = max_len_payout,
                        !.err = o.err, !.payout = o.payout,
                        !.previous_token = o.previous_token]
       /\ UNCHANGED <<tokens_by_id, tokens_per_owner, handed, mvars>>

PayoutInit ==
    /\ MarketFresh
    /\ \E owner_id \in PayoutOwners, royalty \in PayoutRoyalties :
          /\ tokens_by_id = [t \in LedgerTokens |->
                 IF t = "t1" THEN Token(owner_id, EmptyMap, 0, royalty)
                 ELSE Token("bob", EmptyMap, 0, EmptyMap)]
          /\ tokens_per_owner = [a \in {owner_id, "bob"} |->
                 IF a = owner_id THEN {"t1"} ELSE {"t2"}]
    /\ nlast = NoLedgerCall
    /\ handed = [t \in LedgerTokens |-> <<>>]

PayoutNext ==
    \/ \E t \in CallTokens, b \in PayoutBalances, n \in PayoutMaxLens :
          NftPayout(t, b, n)
    \/ \E who \in PayoutOwners, t \in CallTokens, b \in PayoutBalances,
          n \in PayoutMaxLens : NftTransferPayout(who, 1, "bob", t, 0, b, n)

SpecPayout == PayoutInit /\ [][PayoutNext]_vars

\* The latest call returned a Payout.
PayoutReturned ==
    nlast.op \in {"nft_payout", "nft_transfer_payout"} /\ nlast.err = "ok"

\* C14: for every royalty map whose total basis points are <= 10000 and every
\* amount, the amounts of the Payout returned by nft_payout or
\* nft_transfer_payout sum to at most the amount and to at least
\* amount - (n - 1), where n is the number of payout entries.
C14_PayoutSum ==
    (PayoutReturned /\ TotalBps(nlast.previous_token.royalty) <= 10000) =>
        LET n == Cardinality(DOMAIN nlast.payout)
        IN /\ Total(nlast.payout) <= nlast.balance
           /\ Total(nlast.payout) >= nlast.balance - (n - 1)

\* A payout of four entries that loses a unit on each of three of them.
C14_Witness ==
    /\ PayoutReturned
    /\ TotalBps(nlast.previous_token.royalty) <= 10000
    /\ Cardinality(DOMAIN nlast.payout) = 4
    /\ nlast.balance > 0
    /\ Total(nlast.payout) = nlast.balance - 3

\* C15: every Payout returned by nft_payout or nft_transfer_payout called
\* with maximum max_len_payout has at most max_len_payout entries, whether or
\* not the token's owner is a key of the royalty map.
C15_PayoutWithinMaxLen ==
    PayoutReturned => Cardinality(DOMAIN nlast.payout) <= nlast.max_len_payout

\* floor(bps * amount / 10000)
FloorShare(bps, amount) == (bps * amount) \div 10000

\* The royalty map of the example: the owner holds 8000, a beneficiary 2000.
ExampleRoyalty == [a \in {"alice", "bob"} |-> IF a = "alice" THEN 8000 ELSE 2000]

\* C16: the Payout gives every royalty beneficiary other than the owner
\* floor(bps * amount / 10000) and the owner
\* floor((10000 - totalBps) * amount / 10000), totalBps summing the non-owner
\* entries only (the owner's own royalty entry is ignored); royalty
\* {ownerA: 8000, beneficiaryB: 2000} with amount 1000 yields exactly
\* {beneficiaryB: 200, ownerA: 800}.
C16_PayoutShares ==
    PayoutReturned =>
        LET owner_id == nlast.previous_token.owner_id
            royalty == nlast.previous_token.royalty
            others == DOMAIN royalty \ {owner_id}
            totalBps == SumBps(royalty, others)
        IN /\ DOMAIN nlast.payout = others \cup {owner_id}
           /\ \A k \in others : nlast.payout[k] = FloorShare(royalty[k], nlast.balance)
           /\ nlast.payout[owner_id] = FloorShare(10000 - totalBps, nlast.balance)
           /\ (owner_id = "alice" /\ royalty = ExampleRoyalty /\ nlast.balance = 1000)
                 => /\ nlast.payout["bob"] = 200
                    /\ nlast.payout["alice"] = 800
                    /\ Cardinality(DOMAIN nlast.payout) = 2

\* The example: owner alice with royalty {alice: 8000, bob: 2000}, amount 1000.
C16_Witness ==
    /\ PayoutReturned
    /\ nlast.previous_token.owner_id = "alice"
    /\ nlast.previous_token.royalty = ExampleRoyalty
    /\ nlast.balance = 1000
    /\ nlast.payout = [a \in {"alice", "bob"} |-> IF a = "alice" THEN 800 ELSE 200]

(***************************************************************************)
(* Claims about update_price and purchases in flight                       *)
(***************************************************************************)
C17_Step ==
    LET k == LastKey(last')
    IN last'.op = "update_price" =>
         /\ UNCHANGED <<purchases, issued>>
         /\ (k \in DOMAIN sales /\ last'.caller = sales[k].owner_id /\ last'.deposit = 1)
               => /\ last'.err = "ok"
                  /\ DOMAIN sales' = DOMAIN sales
                  /\ sales'[k].sale_conditions = last'.price
                  /\ sales'[k].owner_id = sales[k].owner_id
                  /\ sales'[k].approval_id = sales[k].approval_id
                  /\ sales'[k].nft_contract_id = sales[k].nft_contract_id
                  /\ sales'[k].token_id = sales[k].token_id
                  /\ \A j \in DOMAIN sales \ {k} : sales'[j] = sales[j]
         /\ (k \in DOMAIN sales /\ last'.caller # sales[k].owner_id)
               => /\ last'.err \in {ErrNotOwner, ErrOneYocto}
                  /\ last'.deposit = 1 => last'.err = ErrNotOwner
                  /\ sales' = sales
         /\ k \notin DOMAIN sales
               => /\ last'.err \in {ErrNoSale, ErrOneYocto}
                  /\ last'.deposit = 1 => last'.err = ErrNoSale
                  /\ sales' = sales

\* C17: update_price by the Sale's stored owner with exactly one yocto
\* attached changes only the price of that Sale; called by anyone else it
\* fails and the price is unchanged; called for a key with no Sale it fails
\* ("No sale" when exactly one yocto is attached) and creates nothing.
C17_UpdatePriceFrame == [][C17_Step]_vars

\* The owner has just set the price of one of two listed Sales.
C17_Witness ==
    /\ last.op = "update_price" /\ last.err = "ok"
    /\ Cardinality(DOMAIN sales) = 2
    /\ sales[LastKey(last)].sale_conditions = 2
    /\ \E j \in DOMAIN sales : sales[j].sale_conditions = 1

\* The slots holding a purchase in flight on the listing key k.
InFlightOn(k) ==
    {s \in Slots :
        /\ purchases[s].status = "Initiating"
        /\ contract_and_token_id(purchases[s].request.contract,
                                 purchases[s].request.token_id) = k}

C18_Step ==
    LET k == LastKey(last')
    IN \* a purchase stays as it was started until its own callback runs
       /\ \A s \in Slots :
             purchases[s].status = "Initiating"
                => \/ purchases'[s] = purchases[s]
                   \/ last'.op = "resolve_purchase" /\ last'.slot = s
       \* calls on a listing with a purchase in flight, not listed anew since
       /\ (last'.op \in {"offer", "update_price", "remove_sale"}
             /\ InFlightOn(k) # {} /\ issued[k] >= 1)
             => /\ last'.err \in {ErrNoSale, ErrDepositZero, ErrOneYocto}
                /\ (last'.op = "offer" /\ last'.deposit > 0) => last'.err = ErrNoSale
                /\ (last'.op # "offer" /\ last'.deposit = 1) => last'.err = ErrNoSale
                /\ UNCHANGED <<sales, purchases, issued>>
       \* a started purchase carries the offer's buyer and deposit
       /\ (last'.op = "offer" /\ last'.err = "ok")
             => /\ purchases[last'.slot].status # "Initiating"
                /\ purchases'[last'.slot].status = "Initiating"
                /\ purchases'[last'.slot].callback
                      = [buyer_id |-> last'.caller, price |-> last'.deposit]
                /\ purchases'[last'.slot].request.receiver_id = last'.caller
                /\ purchases'[last'.slot].request.balance = last'.deposit
       \* the callback settles with the buyer and amount of its own purchase
       /\ last'.op = "resolve_purchase"
             => LET own == purchases[last'.slot].callback
                IN /\ purchases[last'.slot].status = "Initiating"
                   /\ last'.caller = own.buyer_id
                   /\ last'.ret = own.price
                   /\ last'.terminal = "Refund"
                         => last'.transfers = SetToBag({<<own.buyer_id, own.price>>})
                   /\ last'.terminal = "Distribute"
                         => /\ last'.transfers = TransfersOf(last'.result.payout)
                            /\ Total(last'.result.payout) \in {own.price, own.price - 1}
                   /\ last'.terminal \in Terminal
                   /\ \A s \in Slots \ {last'.slot} : purchases'[s] = purchases[s]

\* C18: while a purchase of a listing is in flight, an interleaved offer,
\* update_price or remove_sale on that listing fails ("No sale" once its
\* deposit check passes) and changes nothing, while purchases of other
\* listings start and resolve in between; each resolve_purchase refunds or
\* distributes with the buyer and amount of its own purchase only, in any
\* order the callbacks arrive.
C18_PurchasesInFlightIsolated == [][C18_Step]_vars

\* Two purchases by different buyers for different amounts were in flight,
\* and the one started later has just been refunded first.
C18_Witness ==
    /\ last.op = "resolve_purchase" /\ last.slot = 2
    /\ last.terminal = "Refund"
    /\ purchases[1].status = "Initiating"
    /\ purchases[1].callback.buyer_id # last.caller
    /\ purchases[1].callback.price # last.price

(***************************************************************************)
(* A purchase end to end: the market's request runs on the ledger, and its *)
(* outcome comes back to resolve_purchase                                  *)
(***************************************************************************)
\* The market's account, the predecessor of the ledger call it makes.
MarketAccount == "market"
\* The deposit process_purchase attaches to nft_transfer_payout.
RequestDeposit == 1

\* The ledger runs the nft_transfer_payout requested by the purchase in slot s.
LedgerTransfer(s) ==
    /\ purchases[s].status = "Initiating"
    /\ LET rq == purchases[s].request
           o == nft_transfer_payout(MarketAccount, RequestDeposit, rq.receiver_id,
                                    rq.token_id, rq.approval_id, rq.balance,
                                    rq.max_len_payout)
       IN /\ Commit(o)
          /\ nlast' = [NoLedgerCall EXCEPT !.op = "nft_transfer_payout",
                           !.caller = MarketAccount, !.deposit = RequestDeposit,
                           !.token_id = rq.token_id, !.account_id = rq.receiver_id,
                           !.approval_id = rq.approval_id, !.balance = rq.balance,
                           !.max_len_payout = rq.max_len_payout, !.err = o.err,
                           !.payout = o.payout, !.previous_token = o.previous_token]
          /\ purchases' = [purchases EXCEPT
                 ![s].status = "Returned",
                 ![s].result = IF o.err = "ok" THEN Returned(o.payout) ELSE Failed]
    /\ UNCHANGED <<sales, last, issued, handed>>

\* The callback of the purchase in slot s runs with the ledger's outcome.
ResolveReturned(s) ==
    /\ purchases[s].status = "Returned"
    /\ LET cb == purchases[s].callback
           result == purchases[s].result
           o == resolve_purchase(cb.buyer_id, cb.price, result)
       IN /\ purchases' = [purchases EXCEPT ![s] = IdlePurchase]
          /\ last' = [NoCall EXCEPT !.op = "resolve_purchase",
                                    !.caller = cb.buyer_id, !.price = cb.price,
                                    !.slot = s, !.result = result,
                                    !.terminal = o.terminal,
                                    !.transfers = o.transfers, !.ret = o.ret]
    /\ UNCHANGED <<sales, issued>>
    /\ UNCHANGED lvars

ApprovalIds == 0..(MaxApprovals - 1)

PurchaseInit == MarketFresh /\ Minted(EmptyMap)

EndToEndNext ==
    \/ \E who \in Accounts : NftApprove(who, 20, "t1", MarketAccount)
    \/ \E who \in Accounts : NftRevoke(who, 1, "t1", MarketAccount)
    \/ \E who \in Accounts, to \in Accounts :
          NftTransferPayout(who, 1, to, "t1", 0, 0, RequestMaxLenPayout)
    \/ \E a \in ApprovalIds, p \in Prices :
          ListSale(tokens_by_id["t1"].owner_id, "nft", "t1", a, p)
    \/ \E who \in Accounts, d \in Prices :
          /\ \A s \in Slots : purchases[s].status = "Idle"
          /\ Offer(who, d, "nft", "t1")
    \/ \E s \in Slots : LedgerTransfer(s)
    \/ \E s \in Slots : ResolveReturned(s)

SpecEndToEnd == PurchaseInit /\ [][EndToEndNext]_vars

\* The market's approval recorded in a Sale or request is stale on the token:
\* revoked, replaced by a newer id, or cleared by a transfer.
Stale(token, approval_id) ==
    \/ MarketAccount \notin DOMAIN token.approved_account_ids
    \/ token.approved_account_ids[MarketAccount] # approval_id

C19_Step ==
    \* a started purchase has removed the Sale and carries the full deposit
    /\ (last'.op = "offer" /\ last'.err = "ok")
          => /\ LastKey(last') \notin DOMAIN sales'
             /\ purchases'[last'.slot].callback
                   = [buyer_id |-> last'.caller, price |-> last'.deposit]
    \* the ledger rejects the market's transfer when the approval is stale
    /\ \A s \in Slots :
          (purchases[s].status = "Initiating" /\ purchases'[s].status = "Returned")
             => LET rq == purchases[s].request
                    token == tokens_by_id[rq.token_id]
                IN Stale(token, rq.approval_id)
                      => /\ nlast'.err \in {ErrUnauthorized, ErrApprovalMismatch}
                         /\ purchases'[s].result = Failed
                         /\ tokens_by_id' = tokens_by_id
                         /\ tokens_per_owner' = tokens_per_owner
    \* a rejected transfer stays rejected until the callback, which refunds
    /\ \A s \in Slots :
          (purchases[s].status = "Returned" /\ purchases[s].result = Failed)
             => \/ purchases'[s] = purchases[s]
                \/ /\ last'.op = "resolve_purchase" /\ last'.slot = s
                   /\ last'.terminal = "Refund"
                   /\ last'.transfers
                         = SetToBag({<<purchases[s].callback.buyer_id,
                                       purchases[s].callback.price>>})
                   /\ UNCHANGED <<tokens_by_id, tokens_per_owner, sales>>

C20_Step ==
    /\ nlast'.op = "nft_transfer_payout" =>
          LET token == tokens_by_id[nlast'.token_id]
              transferable ==
                  /\ nlast'.deposit = 1
                  /\ ~Unauthorized(token, nlast'.caller)
                  /\ ~ApprovalMismatch(token, nlast'.caller, nlast'.approval_id)
                  /\ ~SameOwnerTransfer(token, nlast'.account_id)
          IN /\ (transferable
                   /\ Cardinality(DOMAIN token.royalty) > nlast'.max_len_payout)
                   => nlast'.err = ErrTooManyReceivers
             /\ nlast'.err # "ok"
                   => /\ nlast'.payout = EmptyMap
                      /\ tokens_by_id' = tokens_by_id
                      /\ tokens_per_owner' = tokens_per_owner
    \* ownership changes only in a call that returns a Payout
    /\ (\E t \in DOMAIN tokens_by_id : tokens_by_id'[t].owner_id # tokens_by_id[t].owner_id)
          => /\ nlast'.op = "nft_transfer_payout"
             /\ nlast'.err = "ok"
             /\ nlast'.previous_token.owner_id \in DOMAIN nlast'.payout

\* C20: the ownership change and the payout computation of
\* nft_transfer_payout are atomic: when the call fails the recipient-count
\* check (royalty.len() > max_len_payout) after the ownership change was
\* applied, the whole call fails and the token's owner, approvals and the
\* holders' token sets are as before; ownership never changes without a
\* Payout being returned.
C20_TransferPayoutAtomic == [][C20_Step]_vars

\* An approved account's transfer has just failed the recipient-count check;
\* the token is still its owner's and the approval is still in place.
C20_Witness ==
    /\ nlast.op = "nft_transfer_payout"
    /\ nlast.err = ErrTooManyReceivers
    /\ nlast.caller # tokens_by_id[nlast.token_id].owner_id
    /\ nlast.caller \in DOMAIN tokens_by_id[nlast.token_id].approved_account_ids
    /\ nlast.token_id \in Holdings(tokens_per_owner, tokens_by_id[nlast.token_id].owner_id)
    /\ nlast.token_id \notin Holdings(tokens_per_owner, nlast.account_id)

(***************************************************************************)
(* Further claims about the ledger                                         *)
(***************************************************************************)
ApprovalCalls == {"nft_approve", "nft_revoke", "nft_revoke_all"}

C21_Step ==
    nlast'.op \in ApprovalCalls =>
        LET token == tokens_by_id[nlast'.token_id]
        IN /\ nlast'.caller # token.owner_id
                 => /\ nlast'.err # "ok"
                    /\ tokens_by_id' = tokens_by_id
                    /\ tokens_per_owner' = tokens_per_owner
                    /\ handed' = handed
           /\ (nlast'.op = "nft_revoke"
                 /\ nlast'.caller = token.owner_id
                 /\ nlast'.deposit = 1
                 /\ nlast'.account_id \notin DOMAIN token.approved_account_ids)
                 => /\ nlast'.err = "ok"
                    /\ tokens_by_id' = tokens_by_id
                    /\ tokens_per_owner' = tokens_per_owner

\* C21: nft_approve, nft_revoke and nft_revoke_all called by an account other
\* than the token's current owner (a previous owner or an approved account
\* included) fail and leave approved_account_ids and next_approval_id
\* unchanged; the owner's nft_revoke of an account that holds no approval
\* succeeds and changes nothing.
C21_ApprovalsOwnerOnly == [][C21_Step]_vars

\* The previous owner, now an approved account of the new owner, has just
\* been refused an approval call.
C21_Witness ==
    /\ nlast.op \in ApprovalCalls
    /\ nlast.err # "ok"
    /\ nlast.caller = "alice"
    /\ tokens_by_id[nlast.token_id].owner_id # "alice"
    /\ "alice" \in DOMAIN tokens_by_id[nlast.token_id].approved_account_ids

(***************************************************************************)
(* Purchases of a token that pays royalties                                *)
(***************************************************************************)
\* Two beneficiaries holding a third each, and ten holding a tenth each.
ThirdsRoyalty == [a \in {"f1", "f2"} |-> 3333]
TenthsRoyalty == [a \in Fillers \cup {MarketAccount} |-> 1000]
PurchaseRoyalties == {EmptyMap, ThirdsRoyalty, TenthsRoyalty}

SettleInit == MarketFresh /\ \E r \in PurchaseRoyalties : Minted(r)

SettleNext ==
    \/ NftApprove(tokens_by_id["t1"].owner_id, 20, "t1", MarketAccount)
    \/ \E a \in ApprovalIds, p \in Prices :
          ListSale(tokens_by_id["t1"].owner_id, "nft", "t1", a, p)
    \/ \E who \in Accounts, d \in Prices :
          /\ \A s \in Slots : purchases[s].status = "Idle"
          /\ Offer(who, d, "nft", "t1")
    \/ \E s \in Slots : LedgerTransfer(s)
    \/ \E s \in Slots : ResolveReturned(s)

SpecSettle == SettleInit /\ [][SettleNext]_vars

C22_Step ==
    \A s \in Slots :
        LET rq == purchases[s].request
            royalty == tokens_by_id[rq.token_id].royalty
        IN (/\ purchases[s].status = "Returned"
            /\ purchases[s].result.kind = "Successful"
            /\ last'.op = "resolve_purchase" /\ last'.slot = s
            /\ Cardinality(DOMAIN royalty) <= 10
            /\ TotalBps(royalty) <= 10000)
              => /\ tokens_by_id[rq.token_id].owner_id = rq.receiver_id
                 /\ last'.terminal = "Distribute"

\* C22: whenever the ledger's nft_transfer_payout succeeds for a purchase on
\* a token whose royalty map has at most 10 entries totalling at most 10000
\* basis points, the Payout passes resolve_purchase's validation and the
\* purchase ends in Distribute: the buyer never holds the token and is
\* refunded as well.
C22_TransferredThenDistributed == [][C22_Step]_vars

\* C23: the ownership index agrees with the token records after any sequence
\* of transfers: every token is in the holdings of exactly one account, that
\* account is the token's owner_id, and no account is kept in
\* tokens_per_owner with an empty set.
C23_OwnershipIndexConsistent ==
    /\ \A t \in DOMAIN tokens_by_id :
          {a \in DOMAIN tokens_per_owner : t \in tokens_per_owner[a]}
              = {tokens_by_id[t].owner_id}
    /\ \A a \in DOMAIN tokens_per_owner :
          /\ tokens_per_owner[a] # {}
          /\ tokens_per_owner[a] \subseteq DOMAIN tokens_by_id

\* After transfers the market holds t1 and the first owner holds nothing.
C23_Witness ==
    /\ tokens_by_id["t1"].owner_id = MarketAccount
    /\ DOMAIN tokens_per_owner = {MarketAccount, "bob"}
    /\ tokens_per_owner[MarketAccount] = {"t1"}
    /\ nlast.op = "nft_transfer_payout" /\ nlast.err = "ok"
    /\ nlast.previous_token.owner_id = "bob"

(***************************************************************************)
(* Further claims about settlement                                         *)
(***************************************************************************)
\* The value of a bag of transfers <<receiver, amount>>.
RECURSIVE SumTransfers(_, _)
SumTransfers(bag, todo) ==
    IF todo = {} THEN 0
    ELSE LET x == CHOOSE y \in todo : TRUE
         IN x[2] * CopiesIn(x, bag) + SumTransfers(bag, todo \ {x})

TransfersTotal(bag) == SumTransfers(bag, BagToSet(bag))

\* C24: the total value resolve_purchase sends out (the refund, or the sum
\* of the distribution transfers) never exceeds the amount carried in the
\* callback and is that amount or that amount minus 1; a remote Payout whose
\* amounts sum to more than the amount is never distributed.
C24_SentWithinCarriedAmount ==
    last.op = "resolve_purchase" =>
        /\ TransfersTotal(last.transfers) <= last.price
        /\ TransfersTotal(last.transfers) \in {last.price, last.price - 1}
        /\ last.ret = last.price
        /\ (last.result.kind = "Successful" /\ last.result.decodable
               /\ Total(last.result.payout) > last.price)
              => /\ last.terminal = "Refund"
                 /\ last.transfers = SetToBag({<<last.caller, last.price>>})

\* A payout of several entries that falls one short of the amount has just
\* been distributed.
C24_Witness ==
    /\ last.op = "resolve_purchase" /\ last.terminal = "Distribute"
    /\ Cardinality(DOMAIN last.result.payout) >= 2
    /\ TransfersTotal(last.transfers) = last.price - 1
    /\ last.price = MaxPrice

\* C25: in nft_transfer_payout the owner's share of the Payout is keyed by
\* the account that owned the token before the transfer, never by the
\* receiver; the receiver is in the Payout only if it is a non-owner
\* beneficiary of the token's royalty map, with that beneficiary's share; the
\* royalty map used is the one the token had before the transfer.
C25_SellerKeyedPayout ==
    (nlast.op = "nft_transfer_payout" /\ nlast.err = "ok") =>
        LET seller == nlast.previous_token.owner_id
            receiver_id == nlast.account_id
            royalty == nlast.previous_token.royalty
            others == DOMAIN royalty \ {seller}
        IN /\ receiver_id # seller
           /\ tokens_by_id[nlast.token_id].owner_id = receiver_id
           /\ DOMAIN nlast.payout = others \cup {seller}
           /\ nlast.payout[seller]
                 = FloorShare(10000 - SumBps(royalty, others), nlast.balance)
           /\ receiver_id \in DOMAIN nlast.payout <=> receiver_id \in DOMAIN royalty
           /\ receiver_id \in DOMAIN royalty
                 => nlast.payout[receiver_id]
                       = FloorShare(royalty[receiver_id], nlast.balance)

\* A token has just gone to one of its royalty beneficiaries: the receiver
\* gets its royalty share and the seller the owner's share.
C25_Witness ==
    /\ nlast.op = "nft_transfer_payout" /\ nlast.err = "ok"
    /\ nlast.account_id \in DOMAIN nlast.previous_token.royalty
    /\ nlast.previous_token.owner_id \notin DOMAIN nlast.previous_token.royalty
    /\ nlast.payout[nlast.account_id] = 100
    /\ nlast.payout[nlast.previous_token.owner_id] = 850

====
